---------------------------- MODULE Spec2Model ----------------------------
(***************************************************************************)
(* Food delivery backend: the order lifecycle (app/main.py), the mock      *)
(* settlement (app/utils.py) and the persisted rows (app/models.py).       *)
(*                                                                         *)
(* Every HTTP handler of main.py is an `async def` whose database part     *)
(* holds no `await`: on the single event loop started by uvicorn.run       *)
(* (main.py:503-505) that part runs without interruption, and handlers     *)
(* interleave only at their suspension points (dependency resolution       *)
(* before the body, the notification sends after the commit).              *)
(***************************************************************************)
EXTENDS Integers, Sequences, FiniteSets, TLC

(***************************************************************************)
(* Bounds of the model.                                                    *)
(***************************************************************************)
MaxOrders == 1      \* order rows ever created
MaxItems == 1       \* menu item rows ever created
MaxLines == 2       \* line items of one OrderCreate body
MaxTime == 5        \* readings of the wall clock
MaxSockets == 2     \* websocket connections ever opened, with the order service
MaxListeners == 3   \* websocket connections ever opened, with the registry alone
MaxCalls == 3       \* direct calls of manager.disconnect
MaxInbox == 2       \* events a websocket has received when send_order_update is called directly

(***************************************************************************)
(* IEEE-754 binary64 arithmetic on non-negative values, as Python's float  *)
(* and the Float columns (models.py:60,74,90-92) compute it.  A natural    *)
(* number is a sequence of bits, least significant first, or the sequence  *)
(* of its limbs (base 2^13).  A double is [m, e]: m the limbs of a 53-bit  *)
(* significand whose top bit is 1, and its value is m * 2^e; or DZero.     *)
(* Every operation rounds to nearest, ties to even.                        *)
(***************************************************************************)
Precision == 53
LimbBits == 13      \* bits of one limb of the multi-word arithmetic below
Base == 8192        \* 2^LimbBits

DZero == [m |-> << >>, e |-> 0]

Pow2 == <<1, 2, 4, 8, 16, 32, 64, 128, 256, 512, 1024, 2048, 4096, 8192>>

Bit(b, i) == IF i >= 1 /\ i <= Len(b) THEN b[i] ELSE 0

BitLen(b) ==
    LET s == {i \in 1..Len(b) : b[i] = 1}
    IN  IF s = {} THEN 0 ELSE CHOOSE i \in s : \A j \in s : j <= i

Trim(b) == SubSeq(b, 1, BitLen(b))

ShiftLeft(b, k) == IF b = << >> THEN << >> ELSE [i \in 1..k |-> 0] \o b

\* Bits <-> limbs (base 2^13, least significant limb first).
RECURSIVE LimbValue(_, _, _)
LimbValue(b, from, i) ==
    IF i = LimbBits THEN 0
    ELSE Bit(b, from + i) * Pow2[i + 1] + LimbValue(b, from, i + 1)

LimbsOf(b) ==
    [j \in 1..((Len(b) + LimbBits - 1) \div LimbBits)
        |-> LimbValue(b, LimbBits * (j - 1) + 1, 0)]

BitsOf(L) ==
    Trim([i \in 1..(LimbBits * Len(L))
            |-> (L[((i - 1) \div LimbBits) + 1] \div Pow2[((i - 1) % LimbBits) + 1]) % 2])

Limb(L, j) == IF j >= 1 /\ j <= Len(L) THEN L[j] ELSE 0

RECURSIVE Propagate(_, _, _)
Propagate(cols, j, c) ==
    IF j > Len(cols) THEN << >>
    ELSE <<(cols[j] + c) % Base>> \o Propagate(cols, j + 1, (cols[j] + c) \div Base)

RECURSIVE ColSum(_, _, _, _)
ColSum(X, Y, k, i) ==
    IF i > Len(X) THEN 0 ELSE X[i] * Limb(Y, k + 1 - i) + ColSum(X, Y, k, i + 1)

AddLimbs(X, Y) ==
    LET n == IF Len(X) > Len(Y) THEN Len(X) ELSE Len(Y)
    IN  Propagate([j \in 1..(n + 1) |-> Limb(X, j) + Limb(Y, j)], 1, 0)

MulLimbs(X, Y) ==
    Propagate([k \in 1..(Len(X) + Len(Y) + 1) |-> ColSum(X, Y, k, 1)], 1, 0)

\* Long division by the small divisor d from limb j down, carrying the
\* remainder r: [q, r].
RECURSIVE DivLimbs(_, _, _, _, _)
DivLimbs(L, j, d, r, q) ==
    IF j = 0 THEN [q |-> q, r |-> r]
    ELSE DivLimbs(L, j - 1, d, (r * Base + L[j]) % d, <<(r * Base + L[j]) \div d>> \o q)

NatBits(n) == BitsOf(<<n % Base, (n \div Base) % Base, n \div (Base * Base)>>)

AddBits(a, b) == BitsOf(AddLimbs(LimbsOf(a), LimbsOf(b)))

\* The double nearest to b * 2^e (ties to even).
RoundToDouble(b, e) ==
    LET n == Len(b)
    IN  IF n = 0 THEN DZero
        ELSE IF n <= Precision
        THEN [m |-> LimbsOf(ShiftLeft(b, Precision - n)), e |-> e - (Precision - n)]
        ELSE LET k      == n - Precision
                 kept   == SubSeq(b, k + 1, n)
                 guard  == b[k]
                 sticky == \E i \in 1..(k - 1) : b[i] = 1
                 up     == guard = 1 /\ (sticky \/ kept[1] = 1)
                 r      == IF up THEN AddBits(kept, <<1>>) ELSE kept
             IN  IF Len(r) > Precision
                 THEN [m |-> LimbsOf(Tail(r)), e |-> e + k + 1]
                 ELSE [m |-> LimbsOf(r), e |-> e + k]

DoubleOfNat(n) == RoundToDouble(NatBits(n), 0)

\* The double a decimal literal p/q denotes (p, q small, p > 0): the
\* quotient to 64 fractional bits with a sticky bit for the remainder.
DoubleOfRatio(p, q) ==
    LET num == LimbsOf(ShiftLeft(NatBits(p), 64))
        d   == DivLimbs(num, Len(num), q, 0, << >>)
        st  == IF d.r = 0 THEN 0 ELSE 1
    IN  RoundToDouble(<<st>> \o BitsOf(d.q), -65)

DoubleMul(x, y) ==
    IF x = DZero \/ y = DZero THEN DZero
    ELSE RoundToDouble(BitsOf(MulLimbs(x.m, y.m)), x.e + y.e)

DoubleAdd(x, y) ==
    IF x = DZero THEN y
    ELSE IF y = DZero THEN x
    ELSE LET lo == IF x.e < y.e THEN x.e ELSE y.e
         IN  RoundToDouble(AddBits(ShiftLeft(BitsOf(x.m), x.e - lo),
                                   ShiftLeft(BitsOf(y.m), y.e - lo)), lo)

RestaurantRate == DoubleOfRatio(8, 10)    \* the literal 0.8
DeliveryRate == DoubleOfRatio(2, 10)      \* the literal 0.2

(***************************************************************************)
(* Users (models.py UserModel).  Roles never change after registration;    *)
(* the rows below stand for the admin created at startup and five          *)
(* registered users.                                                       *)
(***************************************************************************)
ADMIN == "admin"
RESTAURANT == "restaurant"
CUSTOMER == "customer"
DELIVERY_AGENT == "delivery_agent"

Users == {"adm", "r1", "r2", "c1", "d1", "d2"}

role_of ==
    [u \in Users |->
        CASE u = "adm" -> ADMIN
          [] u \in {"r1", "r2"} -> RESTAURANT
          [] u = "c1" -> CUSTOMER
          [] OTHER -> DELIVERY_AGENT]

None == "none"                       \* a NULL delivery_agent_id

PLACED == "placed"
ACCEPTED == "accepted"
ASSIGNED == "assigned_to_delivery"
PICKED_UP == "picked_up"
DELIVERED == "delivered"

OrderStatus == {PLACED, ACCEPTED, ASSIGNED, PICKED_UP, DELIVERED}

\* Inputs of the requests.
Prices == {3, 10}                    \* MenuItemBase.price (whole-valued floats)
Quantities == {1, 2}                 \* OrderItemDict.quantity
BodyAgents == {None, "d1", "d2"}     \* OrderUpdate.delivery_agent_id
RestaurantIds == {"r1", "r2", "c1"}  \* OrderCreate.restaurant_id
UtcOffsets == {-2, 0, 2}             \* local clock minus UTC clock, in ticks

OrderIds == 1..MaxOrders
ItemIds == 1..MaxItems

Lines == [item_id : ItemIds, quantity : Quantities]

ItemLists == UNION {[1..n -> Lines] : n \in 0..MaxLines}

Handlers == {1, 2}                   \* requests in flight on the event loop

VARIABLES
    menu_items,       \* table menu_items: row id -> [restaurant_id, price, present]
    orders,           \* table orders: row id -> OrderModel
    payments,         \* table payments: row id -> PaymentModel
    clock,            \* readings of the wall clock so far
    price_at_creation,\* history: the unit prices each order's lines were billed at
    resp,             \* the response of the request handled last
    handlers,         \* update_order_status coroutines between suspension points
    active_connections, \* manager.active_connections: user -> scope -> [websocket]
    sockets,          \* the websocket connections and what each has received
    fan,              \* the notification sends of the request being served
    last_disconnect   \* the manager.disconnect call made last, outside an endpoint

vars == <<menu_items, orders, payments, clock, price_at_creation, resp, handlers,
          active_connections, sockets, fan, last_disconnect>>

netvars == <<active_connections, sockets, fan, last_disconnect>>

\* A request with its response: the operation, the authenticated user and
\* the request's order_id, status and delivery_agent_id; `read` is what the
\* handler's first query returned (the order row's status and agent for a
\* status update, the number of the order's payments for a payment
\* request); code, detail and body are the HTTP answer.
NoResp == [op |-> "none", user |-> None, order_id |-> 0, status |-> None,
           delivery_agent_id |-> None, read |-> << >>,
           code |-> 0, detail |-> << >>, body |-> << >>]

Response(op, user, order_id, status, code, detail, body) ==
    [op |-> op, user |-> user, order_id |-> order_id, status |-> status,
     delivery_agent_id |-> None, read |-> << >>,
     code |-> code, detail |-> detail, body |-> body]

Idle == [pc |-> "idle", user |-> None, order_id |-> 0, status |-> None,
         delivery_agent_id |-> None, read |-> << >>, code |-> 0]

\* utils.check_role: the required role, or admin.
check_role(required_role, user) ==
    role_of[user] = required_role \/ role_of[user] = ADMIN

\* A naive datetime: the n-th reading of the wall clock, taken from the
\* server's local clock (datetime.now) or from the UTC clock (datetime.utcnow).
Now(n, zone) == [at |-> n, zone |-> zone]

\* What a naive datetime reads as when the local clock is `offset` ahead of UTC.
WallTime(t, offset) == IF t.zone = "local" THEN t.at + offset ELSE t.at

\* A deleted row: its id is never issued again (ids are uuid4 values).
Deleted == [restaurant_id |-> None, price |-> 0, present |-> FALSE]

ItemExists(menu, item_id) == item_id \in DOMAIN menu /\ menu[item_id].present

(***************************************************************************)
(* Menu management (main.py:61-133).                                       *)
(***************************************************************************)
create_menu_item(user, price) ==
    /\ Len(menu_items) < MaxItems
    /\ IF ~check_role(RESTAURANT, user)
       THEN /\ resp' = Response("create_menu_item", user, 0, None, 403, << >>, << >>)
            /\ UNCHANGED menu_items
       ELSE /\ menu_items' = Append(menu_items,
                   [restaurant_id |-> user, price |-> price, present |-> TRUE])
            /\ resp' = Response("create_menu_item", user, 0, None, 200, << >>, << >>)
    /\ UNCHANGED <<orders, payments, clock, price_at_creation, handlers>>

\* The checks update_menu_item and delete_menu_item share.
MenuItemCode(user, item_id) ==
    IF ~check_role(RESTAURANT, user) THEN 403
    ELSE IF ~ItemExists(menu_items, item_id) THEN 404
    ELSE IF menu_items[item_id].restaurant_id # user /\ role_of[user] # ADMIN THEN 403
    ELSE 200

update_menu_item(user, item_id, price) ==
    /\ resp' = Response("update_menu_item", user, 0, None,
                        MenuItemCode(user, item_id), << >>, << >>)
    /\ menu_items' = IF MenuItemCode(user, item_id) = 200
                     THEN [menu_items EXCEPT ![item_id].price = price]
                     ELSE menu_items
    /\ UNCHANGED <<orders, payments, clock, price_at_creation, handlers>>

delete_menu_item(user, item_id) ==
    /\ resp' = Response("delete_menu_item", user, 0, None,
                        IF MenuItemCode(user, item_id) = 200
                        THEN 204 ELSE MenuItemCode(user, item_id), << >>, << >>)
    /\ menu_items' = IF MenuItemCode(user, item_id) = 200
                     THEN [menu_items EXCEPT ![item_id] = Deleted]
                     ELSE menu_items
    /\ UNCHANGED <<orders, payments, clock, price_at_creation, handlers>>

(***************************************************************************)
(* Totals and settlement (utils.py:86-113).                                *)
(***************************************************************************)
\* Faulty variant: the quantity is left out of the sum.
RECURSIVE calculate_order_total_unit(_, _)
calculate_order_total_unit(menu, items) ==
    IF items = << >> THEN 0
    ELSE (IF ItemExists(menu, Head(items).item_id)
          THEN menu[Head(items).item_id].price
          ELSE 0)
         + calculate_order_total_unit(menu, Tail(items))

RECURSIVE calculate_order_total(_, _)
calculate_order_total(menu, items) ==
    IF items = << >> THEN 0
    ELSE (IF ItemExists(menu, Head(items).item_id)
          THEN menu[Head(items).item_id].price * Head(items).quantity
          ELSE 0)
         + calculate_order_total(menu, Tail(items))

\* The totals an order can have, and utils.py:97-98 on each of them: the
\* two shares are float products.
MaxOf(S) == CHOOSE x \in S : \A y \in S : y <= x

Totals == 0..(MaxLines * MaxOf(Prices) * MaxOf(Quantities))

restaurant_share == [t \in Totals |-> DoubleMul(DoubleOfNat(t), RestaurantRate)]

delivery_fee == [t \in Totals |-> DoubleMul(DoubleOfNat(t), DeliveryRate)]

\* The row process_payment builds.
PaymentRow(id, order_id, total_amount) ==
    [id |-> id, order_id |-> order_id, amount |-> total_amount,
     restaurant_share |-> restaurant_share[total_amount],
     delivery_fee |-> delivery_fee[total_amount],
     status |-> "completed"]

\* db.add + db.commit: the commit fails when the store is down (db_ok false)
\* or when order_id is not unique in the table (models.py:89).
process_payment(pays, order_id, total_amount, db_ok) ==
    IF db_ok /\ \A i \in DOMAIN pays : pays[i].order_id # order_id
    THEN [ok |-> TRUE,
          payments |-> Append(pays, PaymentRow(Len(pays) + 1, order_id, total_amount))]
    ELSE [ok |-> FALSE, payments |-> pays]

(***************************************************************************)
(* Order creation (main.py:137-206).                                       *)
(***************************************************************************)
\* Faulty variant: the lines are not validated.
ItemsCode_unchecked(menu, restaurant_id, items) == 200

\* 200 when every line names an existing item of the restaurant; else the
\* error of the first line that does not.
ItemsCode(menu, restaurant_id, items) ==
    LET bad == {i \in 1..Len(items) :
                   \/ ~ItemExists(menu, items[i].item_id)
                   \/ menu[items[i].item_id].restaurant_id # restaurant_id}
        first == CHOOSE i \in bad : \A j \in bad : i <= j
    IN  IF bad = {} THEN 200
        ELSE IF ~ItemExists(menu, items[first].item_id) THEN 404
        ELSE 400

CreateOrderCode(user, restaurant_id, items) ==
    IF ~check_role(CUSTOMER, user) THEN 403
    ELSE IF role_of[restaurant_id] # RESTAURANT THEN 404
    ELSE ItemsCode(menu_items, restaurant_id, items)

create_order(user, restaurant_id, items) ==
    LET code  == CreateOrderCode(user, restaurant_id, items)
        id    == Len(orders) + 1
        total == calculate_order_total(menu_items, items)
    IN  IF code # 200
        THEN /\ resp' = Response("create_order", user, 0, None, code, << >>, << >>)
             /\ UNCHANGED <<menu_items, orders, payments, clock,
                            price_at_creation, handlers>>
        ELSE /\ Len(orders) < MaxOrders
             /\ clock < MaxTime
             /\ clock' = clock + 1
             /\ orders' = Append(orders,
                    [customer_id |-> user, restaurant_id |-> restaurant_id,
                     items |-> items, total_amount |-> total, status |-> PLACED,
                     delivery_agent_id |-> None,
                     created_at |-> Now(clock + 1, "local"),
                     updated_at |-> Now(clock + 1, "local")])
             /\ price_at_creation' = Append(price_at_creation,
                    [i \in 1..Len(items) |-> menu_items[items[i].item_id].price])
             /\ \E db_ok \in BOOLEAN :
                    LET paid == process_payment(payments, id, total, db_ok)
                    IN  /\ payments' = paid.payments
                        /\ resp' = Response("create_order", user, id, None,
                                       IF paid.ok THEN 200 ELSE 500, << >>, << >>)
             /\ UNCHANGED <<menu_items, handlers>>

(***************************************************************************)
(* Status updates (main.py:282-379).                                       *)
(***************************************************************************)
\* Faulty variants of the table: a skipped state, a repeated state.
valid_transitions_skipping ==
    [s \in OrderStatus |->
        CASE s = PLACED -> {ACCEPTED, ASSIGNED}
          [] s = ACCEPTED -> {ASSIGNED}
          [] s = ASSIGNED -> {PICKED_UP}
          [] s = PICKED_UP -> {DELIVERED}
          [] OTHER -> {}]

valid_transitions_repeating ==
    [s \in OrderStatus |->
        CASE s = PLACED -> {ACCEPTED}
          [] s = ACCEPTED -> {ACCEPTED, ASSIGNED}
          [] s = ASSIGNED -> {PICKED_UP}
          [] s = PICKED_UP -> {DELIVERED}
          [] OTHER -> {}]

valid_transitions ==
    [s \in OrderStatus |->
        CASE s = PLACED -> {ACCEPTED}
          [] s = ACCEPTED -> {ASSIGNED}
          [] s = ASSIGNED -> {PICKED_UP}
          [] s = PICKED_UP -> {DELIVERED}
          [] OTHER -> {}]

\* Faulty variants of the authorization block: any delivery agent may move
\* any order; any restaurant may move any order; the owning restaurant may
\* ask for any status.
Authorized_any_agent(order, user, update) ==
    CASE role_of[user] = ADMIN -> TRUE
      [] role_of[user] = RESTAURANT /\ order.restaurant_id = user ->
            update.status \in {ACCEPTED, ASSIGNED}
      [] role_of[user] = DELIVERY_AGENT ->
            update.status \in {PICKED_UP, DELIVERED}
      [] OTHER -> FALSE

Authorized_any_restaurant(order, user, update) ==
    CASE role_of[user] = ADMIN -> TRUE
      [] role_of[user] = RESTAURANT ->
            update.status \in {ACCEPTED, ASSIGNED}
      [] role_of[user] = DELIVERY_AGENT
            /\ (order.delivery_agent_id = user \/ order.status = ASSIGNED) ->
            update.status \in {PICKED_UP, DELIVERED}
      [] OTHER -> FALSE

Authorized_any_target(order, user, update) ==
    CASE role_of[user] = ADMIN -> TRUE
      [] role_of[user] = RESTAURANT /\ order.restaurant_id = user -> TRUE
      [] role_of[user] = DELIVERY_AGENT
            /\ (order.delivery_agent_id = user \/ order.status = ASSIGNED) ->
            update.status \in {PICKED_UP, DELIVERED}
      [] OTHER -> FALSE

\* main.py:297-306.
Authorized(order, user, update) ==
    CASE role_of[user] = ADMIN -> TRUE
      [] role_of[user] = RESTAURANT /\ order.restaurant_id = user ->
            update.status \in {ACCEPTED, ASSIGNED}
      [] role_of[user] = DELIVERY_AGENT
            /\ (order.delivery_agent_id = user \/ order.status = ASSIGNED) ->
            update.status \in {PICKED_UP, DELIVERED}
      [] OTHER -> FALSE

\* Faulty variant: the claiming agent is not written into the body.
ClaimedUpdate_unchanged(order, user, update) == update

\* main.py:304-309: the request body after the authorization block; a
\* delivery agent taking an order without an agent is written into it.
ClaimedUpdate(order, user, update) ==
    IF /\ role_of[user] = DELIVERY_AGENT
       /\ (order.delivery_agent_id = user \/ order.status = ASSIGNED)
       /\ update.status \in {PICKED_UP, DELIVERED}
       /\ update.status = PICKED_UP
       /\ order.delivery_agent_id = None
    THEN [update EXCEPT !.delivery_agent_id = user]
    ELSE update

\* main.py:329-333.
UpdatedOrder(order, update, now) ==
    [order EXCEPT !.status = update.status,
                  !.delivery_agent_id = IF update.delivery_agent_id # None
                                        THEN update.delivery_agent_id ELSE @,
                  !.updated_at = now]

\* Faulty variant: the order is written before the transition is validated.
update_order_status_writing(ords, user, order_id, update, now) ==
    IF order_id \notin DOMAIN ords
    THEN [code |-> 404, detail |-> << >>, orders |-> ords]
    ELSE IF ~Authorized(ords[order_id], user, update)
    THEN [code |-> 403, detail |-> << >>, orders |-> ords]
    ELSE [code |-> IF update.status \in valid_transitions[ords[order_id].status]
                   THEN 200 ELSE 400,
          detail |-> << >>,
          orders |-> [ords EXCEPT ![order_id] =
              UpdatedOrder(@, ClaimedUpdate(ords[order_id], user, update), now)]]

\* The handler's database part, lines 289-336: [code, detail, orders].
update_order_status(ords, user, order_id, update, now) ==
    IF order_id \notin DOMAIN ords
    THEN [code |-> 404, detail |-> << >>, orders |-> ords]
    ELSE IF ~Authorized(ords[order_id], user, update)
    THEN [code |-> 403, detail |-> << >>, orders |-> ords]
    ELSE IF update.status \notin valid_transitions[ords[order_id].status]
    THEN [code |-> 400, detail |-> <<ords[order_id].status, update.status>>,
          orders |-> ords]
    ELSE [code |-> 200, detail |-> << >>,
          orders |-> [ords EXCEPT ![order_id] =
              UpdatedOrder(@, ClaimedUpdate(ords[order_id], user, update), now)]]

\* What the query of line 289 returned, as far as the handler uses it.
OrderRead(ords, order_id) ==
    IF order_id \in DOMAIN ords
    THEN <<ords[order_id].status, ords[order_id].delivery_agent_id>>
    ELSE << >>

\* One request handled with no other request in flight.
UpdateOrderStatus(user, order_id, status, agent) ==
    LET r == update_order_status(orders, user, order_id,
                 [status |-> status, delivery_agent_id |-> agent],
                 Now(clock + 1, "utc"))
    IN  /\ r.code = 200 => clock < MaxTime
        /\ orders' = r.orders
        /\ clock' = IF r.code = 200 THEN clock + 1 ELSE clock
        /\ resp' = [Response("update_order_status", user, order_id, status,
                             r.code, r.detail, << >>)
                        EXCEPT !.delivery_agent_id = agent,
                               !.read = OrderRead(orders, order_id)]
        /\ UNCHANGED <<menu_items, payments, price_at_creation, handlers>>

(***************************************************************************)
(* Payment requests (main.py:382-403).                                     *)
(***************************************************************************)
\* Faulty variant: the lookup of line 397 finds nothing.
ExistingPayments_none(pays, order_id) == {}

ExistingPayments(pays, order_id) == {i \in DOMAIN pays : pays[i].order_id = order_id}

create_payment(user, order_id) ==
    LET existing == ExistingPayments(payments, order_id)
    IN  /\ UNCHANGED <<menu_items, orders, clock, price_at_creation, handlers>>
        /\ IF ~check_role(CUSTOMER, user)
           THEN /\ resp' = Response("create_payment", user, order_id, None, 403, << >>, << >>)
                /\ UNCHANGED payments
           ELSE IF order_id \notin DOMAIN orders
           THEN /\ resp' = Response("create_payment", user, order_id, None, 404, << >>, << >>)
                /\ UNCHANGED payments
           ELSE IF orders[order_id].customer_id # user
           THEN /\ resp' = Response("create_payment", user, order_id, None, 403, << >>, << >>)
                /\ UNCHANGED payments
           ELSE IF existing # {}
           THEN /\ resp' = [Response("create_payment", user, order_id, None, 200, << >>,
                           payments[CHOOSE i \in existing : \A j \in existing : i <= j])
                           EXCEPT !.read = <<Cardinality(existing)>>]
                /\ UNCHANGED payments
           ELSE \E db_ok \in BOOLEAN :
                    LET paid == process_payment(payments, order_id,
                                    orders[order_id].total_amount, db_ok)
                    IN  /\ payments' = paid.payments
                        /\ resp' = [Response("create_payment", user, order_id, None,
                               IF paid.ok THEN 200 ELSE 500, << >>,
                               IF paid.ok THEN paid.payments[Len(paid.payments)]
                               ELSE << >>)
                               EXCEPT !.read = <<0>>]

(***************************************************************************)
(* The connection registry (consumers.py, class ConnectionManager).        *)
(* active_connections maps a user id to a map from a scope to the list of  *)
(* websockets registered under it; a scope is an order id or "all".        *)
(***************************************************************************)
AllScope == 0                        \* the key "all" (order ids are 1, 2, ...)

Sockets == 1..MaxSockets

\* The push messages of main.py:188-194, 339-344, 358-363, by their type,
\* order_id and (for order_update) status.
NoEvent == [type |-> "none", order_id |-> 0, status |-> None]

new_order(order_id) == [type |-> "new_order", order_id |-> order_id, status |-> None]

order_update(order_id, status) ==
    [type |-> "order_update", order_id |-> order_id, status |-> status]

order_available(order_id) ==
    [type |-> "order_available", order_id |-> order_id, status |-> None]

\* A websocket: not yet connected, registered for (user, scope), or closed;
\* and as history the token query parameter it was opened with.
Fresh == [state |-> "new", user |-> None, scope |-> AllScope, token |-> None,
          received |-> << >>]

Closed == [state |-> "closed", user |-> None, scope |-> AllScope, token |-> None,
           received |-> << >>]

\* No notification is being sent.  Of a running one: the event, the users
\* to notify, which of them it is at (r), which of that user's lists it
\* iterates (phase), the list iterator's index (idx), whether the list has
\* left the registry (detached), the websocket of the send it awaits
\* (target); and as history the websockets registered for it when it began
\* (audience), those whose send returned (sent), whether the registry
\* changed while it ran (disturbed) and whether a send was awaited on a
\* websocket already unregistered (stale).
FanIdle ==
    [pc |-> "idle", op |-> "none", code |-> 0, error |-> "none",
     event |-> NoEvent, recips |-> << >>, broadcast |-> FALSE,
     r |-> 0, phase |-> "none", idx |-> 0, detached |-> FALSE, target |-> 0,
     audience |-> {}, sent |-> << >>, disturbed |-> FALSE, stale |-> FALSE]

\* No call of manager.disconnect has been made outside an endpoint.  Of a
\* call: how many there were, its arguments and whether it raised.
NoCall == [n |-> 0, websocket |-> 0, user_id |-> None, order_id |-> AllScope,
           raised |-> FALSE]

\* The registry of a fresh ConnectionManager (line 9), before any request.
NoConnections ==
    /\ active_connections = << >>
    /\ sockets = [w \in Sockets |-> Fresh]
    /\ fan = FanIdle
    /\ last_disconnect = NoCall

\* Faulty variant: every websocket is kept under "all".
connect_all(registry, websocket, user_id, order_id) ==
    LET users == IF user_id \in DOMAIN registry THEN registry
                 ELSE registry @@ (user_id :> << >>)
        conns == IF AllScope \in DOMAIN users[user_id] THEN users[user_id]
                 ELSE users[user_id] @@ (AllScope :> << >>)
    IN  [users EXCEPT ![user_id] = [conns EXCEPT ![AllScope] = Append(@, websocket)]]

\* ConnectionManager.connect, lines 14-24 (after websocket.accept()).
connect(registry, websocket, user_id, order_id) ==
    LET users == IF user_id \in DOMAIN registry THEN registry
                 ELSE registry @@ (user_id :> << >>)
        scope == IF order_id # AllScope THEN order_id ELSE AllScope
        conns == IF scope \in DOMAIN users[user_id] THEN users[user_id]
                 ELSE users[user_id] @@ (scope :> << >>)
    IN  [users EXCEPT ![user_id] = [conns EXCEPT ![scope] = Append(@, websocket)]]

\* list.remove: the list without the first occurrence of x.
Remove(list, x) ==
    LET at == CHOOSE i \in DOMAIN list :
                  list[i] = x /\ \A j \in 1..(i - 1) : list[j] # x
    IN  [i \in 1..(Len(list) - 1) |-> IF i < at THEN list[i] ELSE list[i + 1]]

\* dict `del`: the map without key k.
Without(map, k) == [x \in DOMAIN map \ {k} |-> map[x]]

\* Faulty variant: emptied lists and users are not deleted.
disconnect_keeping(registry, websocket, user_id, order_id) ==
    IF user_id \notin DOMAIN registry
    THEN [registry |-> registry, raised |-> FALSE]
    ELSE LET conns == registry[user_id]
             scope == IF order_id # AllScope /\ order_id \in DOMAIN conns
                      THEN order_id ELSE AllScope
         IN  IF scope \notin DOMAIN conns
             THEN [registry |-> registry, raised |-> FALSE]
             ELSE IF \A i \in DOMAIN conns[scope] : conns[scope][i] # websocket
             THEN [registry |-> registry, raised |-> TRUE]
             ELSE [registry |-> [registry EXCEPT ![user_id][scope] =
                                      Remove(@, websocket)],
                   raised |-> FALSE]

\* ConnectionManager.disconnect, lines 27-38: the registry afterwards, and
\* whether list.remove raised ValueError (the registry is then as before).
disconnect(registry, websocket, user_id, order_id) ==
    IF user_id \notin DOMAIN registry
    THEN [registry |-> registry, raised |-> FALSE]
    ELSE LET conns == registry[user_id]
             scope == IF order_id # AllScope /\ order_id \in DOMAIN conns
                      THEN order_id ELSE AllScope
             pruned == IF Len(conns[scope]) = 1 THEN Without(conns, scope)
                       ELSE [conns EXCEPT ![scope] = Remove(@, websocket)]
         IN  IF scope \notin DOMAIN conns
             THEN [registry |-> IF DOMAIN conns = {} THEN Without(registry, user_id)
                                ELSE registry,
                   raised |-> FALSE]
             ELSE IF \A i \in DOMAIN conns[scope] : conns[scope][i] # websocket
             THEN [registry |-> registry, raised |-> TRUE]
             ELSE [registry |-> IF DOMAIN pruned = {} THEN Without(registry, user_id)
                                ELSE [registry EXCEPT ![user_id] = pruned],
                   raised |-> FALSE]

(***************************************************************************)
(* Notification fan-out.  The sends of one request run as a coroutine that *)
(* is suspended in each `await connection.send_json(message)`; between two *)
(* sends it runs without interruption.  `fan` holds the coroutine: the     *)
(* event, the users to notify, which of them it is at, which of that       *)
(* user's lists it iterates and the list iterator's index.                 *)
(***************************************************************************)
\* The request's handler has finished: the HTTP status and, when an
\* exception ended it, which one (and for a send, on which websocket).
Done(f, code, error) ==
    [f EXCEPT !.pc = "done", !.code = code, !.error = error,
              !.r = 0, !.phase = "none", !.idx = 0, !.detached = FALSE,
              !.target = IF error = "send" THEN @ ELSE 0]

\* To the next recipient of the handler's sequence of calls.
NextRecipient(f) ==
    [f EXCEPT !.r = @ + 1, !.phase = "enter", !.idx = 0, !.detached = FALSE]

\* The scope whose list the coroutine iterates.
FanScope(f) == IF f.phase = "order" THEN f.event.order_id ELSE AllScope

\* Runs the coroutine from where it stands to its next send_json or to its
\* end.  For each recipient: send_order_update (lines 41-48) when the
\* recipient is notified under the order's scope too, broadcast_to_restaurant
\* (lines 51-54) otherwise; after the last one broadcast_to_delivery_agents
\* (lines 57-62) when the handler asked for it.  A list whose scope entry was
\* deleted while it was iterated is empty; line 46 looks the user up again.
\* get_user_by_id, called without a session, raises AttributeError at the
\* first registered user: its db parameter is the Depends marker.
RECURSIVE Run(_, _)
Run(registry, f) ==
    IF f.r > Len(f.recips)
    THEN IF f.broadcast /\ DOMAIN registry # {}
         THEN Done(f, 500, "AttributeError")
         ELSE Done(f, 200, "none")
    ELSE LET user_id == f.recips[f.r].user
             list == IF f.detached THEN << >> ELSE registry[user_id][FanScope(f)]
         IN  CASE f.phase = "enter" ->
                    IF user_id \notin DOMAIN registry
                    THEN Run(registry, NextRecipient(f))
                    ELSE IF /\ f.recips[f.r].order_scope
                            /\ f.event.order_id \in DOMAIN registry[user_id]
                    THEN Run(registry, [f EXCEPT !.phase = "order", !.idx = 1])
                    ELSE Run(registry, [f EXCEPT !.phase = "all?"])
               [] f.phase = "all?" ->
                    IF user_id \notin DOMAIN registry
                    THEN Done(f, 500, "KeyError")
                    ELSE IF AllScope \in DOMAIN registry[user_id]
                    THEN Run(registry, [f EXCEPT !.phase = "all", !.idx = 1,
                                                 !.detached = FALSE])
                    ELSE Run(registry, NextRecipient(f))
               [] OTHER ->
                    IF f.idx <= Len(list)
                    THEN [f EXCEPT !.pc = "sending", !.target = list[f.idx]]
                    ELSE IF f.phase = "order"
                    THEN Run(registry, [f EXCEPT !.phase = "all?"])
                    ELSE Run(registry, NextRecipient(f))

\* The websockets in the lists the calls for these recipients go through.
Audience(registry, recips, event) ==
    UNION {LET user_id == recips[r].user
               conns == registry[user_id]
               listed(scope) == IF scope \in DOMAIN conns
                                THEN {conns[scope][i] : i \in DOMAIN conns[scope]}
                                ELSE {}
           IN  IF user_id \notin DOMAIN registry THEN {}
               ELSE listed(AllScope) \cup
                    (IF recips[r].order_scope THEN listed(event.order_id) ELSE {})
           : r \in DOMAIN recips}

\* The handler reaches its notification calls.
StartFan(registry, op, event, recips, broadcast) ==
    Run(registry, [FanIdle EXCEPT !.pc = "running", !.op = op, !.event = event,
                                  !.recips = recips, !.broadcast = broadcast,
                                  !.r = 1, !.phase = "enter",
                                  !.audience = Audience(registry, recips, event)])

\* The handler raised before any notification call.
Rejected(op, code) == [FanIdle EXCEPT !.pc = "done", !.op = op, !.code = code]

\* Faulty variant: the restaurant is not notified.
Recipients_customer_only(order) ==
    <<[user |-> order.customer_id, order_scope |-> TRUE]>>

\* send_order_update is called for the customer, the restaurant and the
\* delivery agent if one is attached (main.py:346-354).
Recipients(order) ==
    <<[user |-> order.customer_id, order_scope |-> TRUE],
      [user |-> order.restaurant_id, order_scope |-> TRUE]>>
    \o (IF order.delivery_agent_id # None
        THEN <<[user |-> order.delivery_agent_id, order_scope |-> TRUE]>>
        ELSE << >>)

\* A registry change while the coroutine is suspended in a send: the list
\* it iterates is the registry's own list object, or, once the scope entry
\* has been deleted, an emptied list no longer in the registry.
Disturbed(f, registry, user_id, scope) ==
    IF f.pc # "sending" THEN f
    ELSE [f EXCEPT !.disturbed = TRUE,
                   !.detached = \/ @
                                \/ /\ f.recips[f.r].user = user_id
                                   /\ FanScope(f) = scope
                                   /\ \/ user_id \notin DOMAIN registry
                                      \/ scope \notin DOMAIN registry[user_id]]

\* websocket_endpoint and websocket_specific_order up to manager.connect
\* (main.py:407-426, 437-462): a token, when given, must be the path user's,
\* and for an order's scope the order must exist and, for a customer, be
\* theirs; otherwise the socket is closed with code 1008.
Admitted(user_id, order_id, token) ==
    \/ token = None
    \/ /\ token = user_id
       /\ \/ order_id = AllScope
          \/ /\ order_id \in DOMAIN orders
             /\ role_of[user_id] = CUSTOMER => orders[order_id].customer_id = user_id

WebsocketConnects(websocket, user_id, order_id, token) ==
    /\ sockets[websocket].state = "new"
    /\ IF Admitted(user_id, order_id, token)
       THEN /\ active_connections' =
                   connect(active_connections, websocket, user_id, order_id)
            /\ sockets' = [sockets EXCEPT ![websocket] =
                   [state |-> "open", user |-> user_id, scope |-> order_id,
                    token |-> token, received |-> << >>]]
            /\ fan' = Disturbed(fan, active_connections', user_id, order_id)
       ELSE /\ sockets' = [sockets EXCEPT ![websocket] = Closed]
            /\ UNCHANGED <<active_connections, fan>>
    /\ UNCHANGED <<menu_items, orders, payments, clock, price_at_creation,
                   resp, handlers, last_disconnect>>

\* The client goes away: receive_text raises WebSocketDisconnect and the
\* endpoint calls manager.disconnect (main.py:428-434, 464-470).
WebsocketDisconnects(websocket) ==
    LET c == sockets[websocket]
    IN  /\ c.state = "open"
        /\ active_connections' =
               disconnect(active_connections, websocket, c.user, c.scope).registry
        /\ sockets' = [sockets EXCEPT ![websocket] = Closed]
        /\ fan' = Disturbed(fan, active_connections', c.user, c.scope)
        /\ UNCHANGED <<menu_items, orders, payments, clock, price_at_creation,
                       resp, handlers, last_disconnect>>

\* An awaited send_json returns or raises.  The message reaches the client
\* if the send returned and the socket is still open.
SendJson(ok) ==
    /\ fan.pc = "sending"
    /\ IF ok
       THEN /\ sockets' = IF sockets[fan.target].state = "open"
                          THEN [sockets EXCEPT ![fan.target].received =
                                    Append(@, fan.event)]
                          ELSE sockets
            /\ fan' = Run(active_connections,
                          [fan EXCEPT !.pc = "running", !.idx = @ + 1, !.target = 0,
                                      !.sent = IF sockets[fan.target].state = "open"
                                               THEN Append(@, fan.target) ELSE @,
                                      !.stale = \/ @
                                                \/ sockets[fan.target].state # "open"])
       ELSE /\ fan' = Done(fan, 500, "send")
            /\ UNCHANGED sockets
    /\ UNCHANGED <<menu_items, orders, payments, clock, price_at_creation,
                   resp, handlers, active_connections, last_disconnect>>

(***************************************************************************)
(* The service with one request at a time.                                 *)
(***************************************************************************)
Init ==
    /\ menu_items = << >>
    /\ orders = << >>
    /\ payments = << >>
    /\ clock = 0
    /\ price_at_creation = << >>
    /\ resp = NoResp
    /\ handlers = [h \in Handlers |-> Idle]
    /\ NoConnections

\* A request is served once the previous one has been answered.
CreateMenuItem ==
    /\ resp = NoResp
    /\ \E u \in Users, p \in Prices : create_menu_item(u, p)
    /\ UNCHANGED netvars

UpdateMenuItem ==
    /\ resp = NoResp
    /\ \E u \in Users, i \in ItemIds, p \in Prices : update_menu_item(u, i, p)
    /\ UNCHANGED netvars

DeleteMenuItem ==
    /\ resp = NoResp
    /\ \E u \in Users, i \in ItemIds : delete_menu_item(u, i)
    /\ UNCHANGED netvars

CreateOrder ==
    /\ resp = NoResp
    /\ \E u \in Users, r \in RestaurantIds, items \in ItemLists :
            create_order(u, r, items)
    /\ UNCHANGED netvars

UpdateStatus ==
    /\ resp = NoResp
    /\ \E u \in Users, o \in OrderIds, s \in OrderStatus, a \in BodyAgents :
            UpdateOrderStatus(u, o, s, a)
    /\ UNCHANGED netvars

CreatePayment ==
    /\ resp = NoResp
    /\ \E u \in Users, o \in OrderIds : create_payment(u, o)
    /\ UNCHANGED netvars

\* The handler returns; the next request is served.
ReturnResponse ==
    /\ resp # NoResp
    /\ resp' = NoResp
    /\ UNCHANGED <<menu_items, orders, payments, clock, price_at_creation, handlers>>
    /\ UNCHANGED netvars

Next ==
    \/ CreateMenuItem
    \/ UpdateMenuItem
    \/ DeleteMenuItem
    \/ CreateOrder
    \/ UpdateStatus
    \/ CreatePayment
    \/ ReturnResponse

Spec == Init /\ [][Next]_vars

(***************************************************************************)
(* Concurrent status updates.  A request is bound to a coroutine when it   *)
(* arrives; the coroutine is suspended while its dependencies resolve      *)
(* (get_db, get_current_active_user), runs lines 289-336 without an await, *)
(* and is suspended again in the notification sends before it returns.     *)
(* The store starts as the scenario of the spec leaves it: restaurant r1   *)
(* sells one item at 10.00 and customer c1 has ordered two of it.          *)
(***************************************************************************)
RequestArrives(h, user, order_id, status, agent) ==
    /\ handlers[h].pc = "idle"
    /\ handlers' = [handlers EXCEPT ![h] =
           [pc |-> "received", user |-> user, order_id |-> order_id,
            status |-> status, delivery_agent_id |-> agent, read |-> << >>,
            code |-> 0]]
    /\ UNCHANGED <<menu_items, orders, payments, clock, price_at_creation, resp>>
    /\ UNCHANGED netvars

HandlerBody(h) ==
    LET q == handlers[h]
        r == update_order_status(orders, q.user, q.order_id,
                 [status |-> q.status, delivery_agent_id |-> q.delivery_agent_id],
                 Now(clock + 1, "utc"))
    IN  /\ q.pc = "received"
        /\ r.code = 200 => clock < MaxTime
        /\ orders' = r.orders
        /\ clock' = IF r.code = 200 THEN clock + 1 ELSE clock
        /\ handlers' = [handlers EXCEPT
               ![h].pc = "responding",
               ![h].code = r.code,
               ![h].read = OrderRead(orders, q.order_id)]
        /\ UNCHANGED <<menu_items, payments, price_at_creation, resp>>
        /\ UNCHANGED netvars

HandlerReturns(h) ==
    /\ handlers[h].pc = "responding"
    /\ handlers' = [handlers EXCEPT ![h] = Idle]
    /\ UNCHANGED <<menu_items, orders, payments, clock, price_at_creation, resp>>
    /\ UNCHANGED netvars

InitConc ==
    /\ menu_items = <<[restaurant_id |-> "r1", price |-> 10, present |-> TRUE]>>
    /\ orders = <<[customer_id |-> "c1", restaurant_id |-> "r1",
                   items |-> <<[item_id |-> 1, quantity |-> 2]>>,
                   total_amount |-> 20, status |-> PLACED,
                   delivery_agent_id |-> None,
                   created_at |-> Now(1, "local"), updated_at |-> Now(1, "local")]>>
    /\ payments = <<PaymentRow(1, 1, 20)>>
    /\ clock = 1
    /\ price_at_creation = <<(<<10>>)>>
    /\ resp = NoResp
    /\ handlers = [h \in Handlers |-> Idle]
    /\ NoConnections

Arrive ==
    \E h \in Handlers, u \in Users, o \in OrderIds, s \in OrderStatus, a \in BodyAgents :
        RequestArrives(h, u, o, s, a)

RunBody == \E h \in Handlers : HandlerBody(h)

Return == \E h \in Handlers : HandlerReturns(h)

NextConc == Arrive \/ RunBody \/ Return

SpecConc == InitConc /\ [][NextConc]_vars

(***************************************************************************)
(* Orders with push notifications.  One request is served at a time; its   *)
(* handler runs the database part and then the notification sends, and     *)
(* websockets connect and disconnect while it is suspended in a send.      *)
(* The menu starts with restaurant r1's item, on sale or deleted.          *)
(***************************************************************************)
Creators == {"c1", "d1"}               \* the users who send POST /orders here
Movers == {"adm", "r1", "c1", "d1"}    \* the users who send PUT /orders/{id} here
ConnUsers == {"c1", "r1", "d1"}        \* the user_id of a websocket path here
Tokens == {None, "bad", "c1"}          \* no token, a forged one, user c1's

ShortLists == {<<[item_id |-> 1, quantity |-> 1]>>}   \* the items of a body here

\* create_order with its new_order broadcast (main.py:137-206).  A failed
\* settlement raises before the broadcast.
CreateOrderNotify(user, restaurant_id, items) ==
    LET code  == CreateOrderCode(user, restaurant_id, items)
        id    == Len(orders) + 1
        total == calculate_order_total(menu_items, items)
    IN  IF code # 200
        THEN /\ fan' = Rejected("create_order", code)
             /\ UNCHANGED <<orders, payments, clock, price_at_creation>>
        ELSE /\ Len(orders) < MaxOrders
             /\ clock < MaxTime
             /\ clock' = clock + 1
             /\ orders' = Append(orders,
                    [customer_id |-> user, restaurant_id |-> restaurant_id,
                     items |-> items, total_amount |-> total, status |-> PLACED,
                     delivery_agent_id |-> None,
                     created_at |-> Now(clock + 1, "local"),
                     updated_at |-> Now(clock + 1, "local")])
             /\ price_at_creation' = Append(price_at_creation,
                    [i \in 1..Len(items) |-> menu_items[items[i].item_id].price])
             /\ \E db_ok \in BOOLEAN :
                    LET paid == process_payment(payments, id, total, db_ok)
                    IN  /\ payments' = paid.payments
                        /\ fan' = IF paid.ok
                                  THEN StartFan(active_connections, "create_order",
                                           new_order(id),
                                           <<[user |-> restaurant_id,
                                              order_scope |-> FALSE]>>,
                                           FALSE)
                                  ELSE Rejected("create_order", 500)

\* update_order_status with its notifications (main.py:282-379).
UpdateOrderStatusNotify(user, order_id, status, agent) ==
    LET r == update_order_status(orders, user, order_id,
                 [status |-> status, delivery_agent_id |-> agent],
                 Now(clock + 1, "utc"))
    IN  /\ r.code = 200 => clock < MaxTime
        /\ orders' = r.orders
        /\ clock' = IF r.code = 200 THEN clock + 1 ELSE clock
        /\ fan' = IF r.code = 200
                  THEN StartFan(active_connections, "update_order_status",
                           order_update(order_id, status),
                           Recipients(r.orders[order_id]),
                           /\ r.orders[order_id].status = ASSIGNED
                           /\ r.orders[order_id].delivery_agent_id = None)
                  ELSE Rejected("update_order_status", r.code)
        /\ UNCHANGED <<payments, price_at_creation>>

InitNotify ==
    /\ menu_items \in {<<[restaurant_id |-> "r1", price |-> 10, present |-> TRUE]>>,
                       <<Deleted>>}
    /\ orders = << >>
    /\ payments = << >>
    /\ clock = 0
    /\ price_at_creation = << >>
    /\ resp = NoResp
    /\ handlers = [h \in Handlers |-> Idle]
    /\ NoConnections

\* Websocket w is the w-th to be opened.
Connect ==
    \E w \in Sockets, u \in ConnUsers, o \in {AllScope} \cup OrderIds, t \in Tokens :
        /\ \A v \in 1..(w - 1) : sockets[v].state # "new"
        /\ WebsocketConnects(w, u, o, t)

Disconnect == \E w \in Sockets : WebsocketDisconnects(w)

PlaceOrder ==
    /\ fan.pc = "idle"
    /\ \E u \in Creators, r \in RestaurantIds, items \in ShortLists :
            CreateOrderNotify(u, r, items)
    /\ UNCHANGED <<menu_items, resp, handlers, active_connections, sockets,
                   last_disconnect>>

MoveOrder ==
    /\ fan.pc = "idle"
    /\ \E u \in Movers, o \in OrderIds, s \in OrderStatus, a \in BodyAgents :
            UpdateOrderStatusNotify(u, o, s, a)
    /\ UNCHANGED <<menu_items, resp, handlers, active_connections, sockets,
                   last_disconnect>>

Send == \E ok \in BOOLEAN : SendJson(ok)

\* The handler returns or its exception is answered; the next request is served.
Respond ==
    /\ fan.pc = "done"
    /\ fan' = FanIdle
    /\ UNCHANGED <<menu_items, orders, payments, clock, price_at_creation,
                   resp, handlers, active_connections, sockets,
                   last_disconnect>>

NextNotify == Connect \/ Disconnect \/ PlaceOrder \/ MoveOrder \/ Send \/ Respond

SpecNotify == InitNotify /\ [][NextNotify]_vars

(***************************************************************************)
(* The registry on its own: websockets register and unregister, for any    *)
(* user and scope (no token is presented, no order needs to exist), and    *)
(* send_order_update is called for any user and order.                     *)
(***************************************************************************)
RegistryScopes == {AllScope, 1, 2}   \* the scopes named in websocket paths here

RegistryUsers == {"c1", "r1"}        \* the user_id of paths and calls here

NotifiedOrders == {1, 2}             \* the order_id of a send_order_update call here

Listeners == 1..MaxListeners

InitRegistry ==
    /\ menu_items = << >>
    /\ orders = << >>
    /\ payments = << >>
    /\ clock = 0
    /\ price_at_creation = << >>
    /\ resp = NoResp
    /\ handlers = [h \in Handlers |-> Idle]
    /\ active_connections = << >>
    /\ sockets = [w \in Listeners |-> Fresh]
    /\ fan = FanIdle
    /\ last_disconnect = NoCall

Register ==
    \E w \in Listeners, u \in RegistryUsers, o \in RegistryScopes :
        /\ \A v \in 1..(w - 1) : sockets[v].state # "new"
        /\ WebsocketConnects(w, u, o, None)

Unregister == \E w \in Listeners : WebsocketDisconnects(w)

\* await manager.send_order_update(user_id, order_id, message).
NotifyUser ==
    /\ fan.pc = "idle"
    /\ \A w \in Listeners : Len(sockets[w].received) < MaxInbox
    /\ \E u \in RegistryUsers, o \in NotifiedOrders :
          fan' = StartFan(active_connections, "send_order_update",
                          order_update(o, ACCEPTED),
                          <<[user |-> u, order_scope |-> TRUE]>>, FALSE)
    /\ UNCHANGED <<menu_items, orders, payments, clock, price_at_creation,
                   resp, handlers, active_connections, sockets,
                   last_disconnect>>

NextRegistry == Register \/ Unregister \/ NotifyUser \/ Send \/ Respond

SpecRegistry == InitRegistry /\ [][NextRegistry]_vars

(***************************************************************************)
(* The registry with manager.disconnect called for any websocket, user and *)
(* order, whether or not that websocket is registered there.               *)
(***************************************************************************)
\* manager.disconnect(websocket, user_id, order_id); order_id is omitted
\* (AllScope) or names an order.
DisconnectCall ==
    /\ last_disconnect.n < MaxCalls
    /\ \E w \in Listeners, u \in RegistryUsers, o \in RegistryScopes :
          LET d == disconnect(active_connections, w, u, o)
          IN  /\ active_connections' = d.registry
              /\ last_disconnect' = [n |-> last_disconnect.n + 1, websocket |-> w,
                                     user_id |-> u, order_id |-> o,
                                     raised |-> d.raised]
    /\ UNCHANGED <<menu_items, orders, payments, clock, price_at_creation,
                   resp, handlers, sockets, fan>>

NextDisconnect == Register \/ DisconnectCall

SpecDisconnect == InitRegistry /\ [][NextDisconnect]_vars

(***************************************************************************)
(* Properties of the order lifecycle.                                      *)
(***************************************************************************)
Edges ==
    {<<PLACED, ACCEPTED>>, <<ACCEPTED, ASSIGNED>>,
     <<ASSIGNED, PICKED_UP>>, <<PICKED_UP, DELIVERED>>}

\* The state holds the answer to a status update on an existing order.
UpdateAnswered == resp.op = "update_order_status" /\ Len(resp.read) = 2

\* This step handles a status update on an existing order.
UpdateHandled ==
    /\ resp = NoResp
    /\ resp'.op = "update_order_status"
    /\ resp'.order_id \in DOMAIN orders

\* C1: an order's status changes only along placed -> accepted ->
\* assigned_to_delivery -> picked_up -> delivered, whoever asks (admin
\* included): no step moves it backward, skips a state, or moves it out of
\* delivered; and no step removes an order.
C1_StatusFollowsEdges ==
    [][\A o \in DOMAIN orders :
          /\ o \in DOMAIN orders'
          /\ orders'[o].status # orders[o].status
                => <<orders[o].status, orders'[o].status>> \in Edges]_vars

\* C1's case: the admin asks to move a delivered order and is refused.
C1_Witness ==
    /\ UpdateAnswered
    /\ resp.user = "adm"
    /\ resp.read[1] = DELIVERED
    /\ resp.code = 400
    /\ orders[resp.order_id].status = DELIVERED

\* C3: a status update by a delivery agent succeeds only if the target is
\* picked_up or delivered and the agent either is the order's delivery agent
\* already or finds the order in assigned_to_delivery with no agent attached.
C3_AgentOwnsOrClaimsUnassigned ==
    (UpdateAnswered /\ role_of[resp.user] = DELIVERY_AGENT /\ resp.code = 200)
        => /\ resp.status \in {PICKED_UP, DELIVERED}
           /\ \/ resp.read[2] = resp.user
              \/ resp.read = <<ASSIGNED, None>>

\* C4: on an existing order, a restaurant's update succeeds only if the
\* restaurant is the order's restaurant and the target is accepted or
\* assigned_to_delivery, and is answered 403 otherwise; a customer's update is
\* always answered 403, on the customer's own order too.
C4_RestaurantOwnsCustomerNever ==
    UpdateAnswered =>
        /\ role_of[resp.user] = CUSTOMER => resp.code = 403
        /\ role_of[resp.user] = RESTAURANT =>
              IF /\ orders[resp.order_id].restaurant_id = resp.user
                 /\ resp.status \in {ACCEPTED, ASSIGNED}
              THEN resp.code \in {200, 400}
              ELSE resp.code = 403

\* C4's case: the customer asks to move the customer's own order.
C4_Witness ==
    /\ UpdateAnswered
    /\ resp.user = "c1"
    /\ orders[resp.order_id].customer_id = "c1"
    /\ resp.code = 403

\* C5: when an authorized actor asks for a (current, target) pair that is not
\* an edge of the graph, the answer is 400 naming the pair, and no order row
\* changes (status, delivery_agent_id and updated_at included).
C5_InvalidTransitionRejected ==
    [][(/\ UpdateHandled
        /\ Authorized(orders[resp'.order_id], resp'.user,
               [status |-> resp'.status,
                delivery_agent_id |-> resp'.delivery_agent_id])
        /\ <<orders[resp'.order_id].status, resp'.status>> \notin Edges)
          => /\ resp'.code = 400
             /\ resp'.detail = <<orders[resp'.order_id].status, resp'.status>>
             /\ orders' = orders]_vars

\* C5's case: a repeated status (accepted -> accepted) is refused.
C5_Witness ==
    /\ UpdateAnswered
    /\ resp.code = 400
    /\ resp.detail = <<ACCEPTED, ACCEPTED>>
    /\ orders[resp.order_id].status = ACCEPTED

\* The owning restaurant asks to move its accepted order to picked_up.
RestaurantAsksPickedUp ==
    /\ UpdateAnswered
    /\ role_of[resp.user] = RESTAURANT
    /\ orders[resp.order_id].restaurant_id = resp.user
    /\ resp.read[1] = ACCEPTED
    /\ resp.status = PICKED_UP

\* C6 as stated: the request fails with InvalidTransition (400) and the order
\* stays accepted.
C6_Original ==
    RestaurantAsksPickedUp =>
        resp.code = 400 /\ orders[resp.order_id].status = ACCEPTED

\* C6 amended: the request fails with Unauthorized (403), the authorization
\* block refusing a restaurant every target but accepted and
\* assigned_to_delivery before the transition is looked at; the order stays
\* accepted.
C6_RestaurantPickedUpUnauthorized ==
    RestaurantAsksPickedUp =>
        resp.code = 403 /\ orders[resp.order_id].status = ACCEPTED

C6_Witness == RestaurantAsksPickedUp /\ resp.user = "r1" /\ resp.code = 403

\* C7: when a delivery agent's request moves an order found in
\* assigned_to_delivery with no agent attached to picked_up, the updated row
\* has that agent as delivery_agent_id, whatever the request body carried.
C7_ClaimRecordsAgent ==
    (/\ UpdateAnswered
     /\ role_of[resp.user] = DELIVERY_AGENT
     /\ resp.read = <<ASSIGNED, None>>
     /\ resp.status = PICKED_UP
     /\ resp.code = 200)
        => /\ orders[resp.order_id].status = PICKED_UP
           /\ orders[resp.order_id].delivery_agent_id = resp.user

\* C7's case: d1 claims an unassigned order with a body naming d2.
C7_Witness ==
    /\ UpdateAnswered
    /\ resp.user = "d1"
    /\ resp.delivery_agent_id = "d2"
    /\ resp.read = <<ASSIGNED, None>>
    /\ resp.status = PICKED_UP
    /\ resp.code = 200
    /\ orders[resp.order_id].delivery_agent_id = "d1"

(***************************************************************************)
(* Properties of totals and payments.                                      *)
(***************************************************************************)
\* Sum of unit price x quantity over the lines, with the unit prices given.
RECURSIVE BilledSum(_, _)
BilledSum(prices, items) ==
    IF items = << >> THEN 0
    ELSE Head(prices) * Head(items).quantity + BilledSum(Tail(prices), Tail(items))

\* C8: every stored order's total_amount is the sum over its lines of the
\* menu price at creation time x quantity, and no later step (a price change,
\* a deleted item, a status update, a payment request) changes the total or
\* the lines of an existing order.
C8_TotalIsSnapshot ==
    /\ [](\A o \in DOMAIN orders :
              orders[o].total_amount = BilledSum(price_at_creation[o], orders[o].items))
    /\ [][\A o \in DOMAIN orders :
              /\ o \in DOMAIN orders'
              /\ orders'[o].total_amount = orders[o].total_amount
              /\ orders'[o].items = orders[o].items
              /\ price_at_creation'[o] = price_at_creation[o]]_vars

\* C8's case: an order of two lines whose item has since changed price or
\* been deleted, and which has been moved on and paid.
C8_Witness ==
    \E o \in DOMAIN orders :
        /\ Len(orders[o].items) = 2
        /\ orders[o].total_amount > 0
        /\ orders[o].total_amount # calculate_order_total(menu_items, orders[o].items)
        /\ orders[o].status = ACCEPTED
        /\ \E i \in DOMAIN payments : payments[i].order_id = o

\* C9: no two payment rows belong to one order; and a payment request for an
\* order that has a payment leaves the payments table as it is and, made by
\* the order's customer, is answered 200 with that very row (id, amount,
\* restaurant_share and delivery_fee included).
C9_PaymentIdempotent ==
    /\ [](\A i, j \in DOMAIN payments :
              payments[i].order_id = payments[j].order_id => i = j)
    /\ [][(/\ resp = NoResp
           /\ resp'.op = "create_payment"
           /\ \E i \in DOMAIN payments : payments[i].order_id = resp'.order_id)
             => /\ payments' = payments
                /\ resp'.user = orders[resp'.order_id].customer_id
                      => /\ resp'.code = 200
                         /\ \E i \in DOMAIN payments :
                               /\ payments[i].order_id = resp'.order_id
                               /\ resp'.body = payments[i]]_vars

\* C9's case: the customer asks for the payment of an order that has one and
\* gets that row back.
C9_Witness ==
    /\ resp.op = "create_payment"
    /\ resp.read = <<1>>
    /\ resp.code = 200
    /\ Len(payments) = 1
    /\ resp.body = payments[1]

\* C10: every payment's amount is its order's total_amount, and its
\* restaurant_share and delivery_fee, the 80% and 20% parts, add up to the
\* amount.
C10_SharesAddUp ==
    \A i \in DOMAIN payments :
        /\ payments[i].amount = orders[payments[i].order_id].total_amount
        /\ DoubleAdd(payments[i].restaurant_share, payments[i].delivery_fee)
              = DoubleOfNat(payments[i].amount)

(***************************************************************************)
(* Properties of concurrent claims.                                        *)
(***************************************************************************)
\* Coroutine h holds a delivery agent's request to move order o to picked_up.
AgentPickUp(h, o) ==
    /\ handlers[h].pc # "idle"
    /\ role_of[handlers[h].user] = DELIVERY_AGENT
    /\ handlers[h].order_id = o
    /\ handlers[h].status = PICKED_UP

\* C2: with the pick-up requests of two distinct delivery agents for one
\* order in flight, (a) the one whose body runs first on the order in
\* assigned_to_delivery with no agent succeeds and is recorded as the
\* delivery agent; (b) the other, running after it, is answered 403 and
\* changes no order; (c) the two never both succeed.
C2_ExactlyOneClaimant ==
    [][\A h1, h2 \in Handlers, o \in DOMAIN orders :
          (/\ h1 # h2
           /\ AgentPickUp(h1, o) /\ AgentPickUp(h2, o)
           /\ handlers[h1].user # handlers[h2].user
           /\ handlers[h1].pc = "received"
           /\ handlers'[h1].pc = "responding")
             => /\ (/\ handlers[h2].pc = "received"
                    /\ orders[o].status = ASSIGNED
                    /\ orders[o].delivery_agent_id = None)
                      => /\ handlers'[h1].code = 200
                         /\ orders'[o].status = PICKED_UP
                         /\ orders'[o].delivery_agent_id = handlers[h1].user
                /\ (/\ handlers[h2].pc = "responding"
                    /\ handlers[h2].code = 200
                    /\ orders[o].delivery_agent_id = handlers[h2].user)
                      => /\ handlers'[h1].code = 403
                         /\ orders' = orders
                /\ (handlers[h2].pc = "responding" /\ handlers[h2].code = 200)
                      => handlers'[h1].code # 200]_vars

\* C2's case: both requests were in flight; the first found the order
\* unassigned and took it, the second, whose body named itself, found it
\* taken and was answered 403.
C2_Witness ==
    \E h1, h2 \in Handlers, o \in DOMAIN orders :
        /\ AgentPickUp(h1, o) /\ AgentPickUp(h2, o)
        /\ handlers[h1].user # handlers[h2].user
        /\ handlers[h1].pc = "responding" /\ handlers[h2].pc = "responding"
        /\ handlers[h1].read = <<ASSIGNED, None>>
        /\ handlers[h1].code = 200
        /\ handlers[h2].read = <<PICKED_UP, handlers[h1].user>>
        /\ handlers[h2].delivery_agent_id = handlers[h2].user
        /\ handlers[h2].code = 403
        /\ orders[o].delivery_agent_id = handlers[h1].user

(***************************************************************************)
(* Properties of order creation and of the notifications.                  *)
(***************************************************************************)
\* The events of one type that websocket w has received.
Received(w, type) ==
    {i \in DOMAIN sockets[w].received : sockets[w].received[i].type = type}

\* C11: a create_order request stores an order only if the body's restaurant
\* is a user with the restaurant role and every line names an existing menu
\* item of that restaurant, and the stored order is placed with no delivery
\* agent; a request that stores no order is answered 403, 404 or 400, or 500
\* by a failed settlement of an order it did store, creates no payment and
\* starts no send; and every new_order event received is about a stored order.
C11_CreateOrderValidated ==
    /\ [][(fan.pc = "idle" /\ fan'.op = "create_order") =>
            IF orders' # orders
            THEN LET o == orders'[Len(orders')]
                 IN  /\ Len(orders') = Len(orders) + 1
                     /\ role_of[o.restaurant_id] = RESTAURANT
                     /\ \A i \in DOMAIN o.items :
                            /\ ItemExists(menu_items, o.items[i].item_id)
                            /\ menu_items[o.items[i].item_id].restaurant_id
                                  = o.restaurant_id
                     /\ o.status = PLACED
                     /\ o.delivery_agent_id = None
            ELSE /\ fan'.code \in {403, 404, 400}
                 /\ payments' = payments
                 /\ fan'.pc = "done"
                 /\ fan'.event = NoEvent
                 /\ sockets' = sockets]_vars
    /\ [](\A w \in Sockets : \A i \in Received(w, "new_order") :
              sockets[w].received[i].order_id \in DOMAIN orders)

\* C11's case: after an order for r1 was created and announced to r1's
\* connection, a creation naming customer c1 as the restaurant is answered
\* 404 while c1 holds an "all" connection, which receives nothing.
C11_Witness ==
    /\ fan.pc = "done" /\ fan.op = "create_order" /\ fan.code = 404
    /\ Len(orders) = 1 /\ orders[1].status = PLACED
    /\ sockets[1] = [state |-> "open", user |-> "r1", scope |-> AllScope, token |-> None,
                     received |-> <<new_order(1)>>]
    /\ sockets[2] = [state |-> "open", user |-> "c1", scope |-> AllScope, token |-> None,
                     received |-> << >>]

\* How many times websocket w has received event e.
Count(w, e) ==
    Cardinality({i \in DOMAIN sockets[w].received : sockets[w].received[i] = e})

\* The users an order's updates are addressed to.
Parties(order) ==
    {order.customer_id, order.restaurant_id, order.delivery_agent_id} \ {None}

\* Websocket w is registered for one of the order's parties, under the
\* order's scope or under "all".
Subscribed(w, order_id) ==
    /\ sockets[w].state = "open"
    /\ sockets[w].user \in Parties(orders[order_id])
    /\ sockets[w].scope \in {order_id, AllScope}

\* The request being answered moved an order, every send of its
\* notifications returned, and no websocket connected or disconnected
\* while they were sent.
MovedAndNotified ==
    /\ fan.pc = "done"
    /\ fan.op = "update_order_status"
    /\ fan.event.type = "order_update"
    /\ fan.error \notin {"send", "KeyError"}
    /\ ~fan.disturbed

AgentListening(w) ==
    /\ sockets[w].state = "open"
    /\ role_of[sockets[w].user] = DELIVERY_AGENT
    /\ sockets[w].scope = AllScope

\* C13: at the moment the undisturbed sends of a persisted status update end,
\* each "all" connection of a delivery agent has received the order's
\* order_available event once if the order became assigned_to_delivery with
\* no delivery agent attached, and no websocket has received it otherwise.
C13_OrderAvailableBroadcast ==
    [][(fan.pc # "done" /\ MovedAndNotified') =>
          \A w \in Sockets :
              (Count(w, order_available(fan.event.order_id)) =
                  IF /\ AgentListening(w)
                     /\ fan.event.status = ASSIGNED
                     /\ orders[fan.event.order_id].delivery_agent_id = None
                  THEN 1 ELSE 0)']_vars

\* C16: at the moment the sends of a persisted status update end, no
\* websocket having connected or disconnected meanwhile, every websocket
\* registered for the order's parties has received the order_update, except
\* one on which the send failed.
C16_SendFailureIsolated ==
    [][(/\ fan.pc # "done" /\ fan'.pc = "done"
        /\ fan'.op = "update_order_status"
        /\ fan'.event.type = "order_update"
        /\ ~fan'.disturbed)
          => \A w \in Sockets :
                 ((Subscribed(w, fan.event.order_id) /\ w # fan.target)
                      => Count(w, fan.event) >= 1)']_vars

\* C17: a status update that was persisted is answered 200, whatever
\* happened to its notifications.
C17_UpdateSucceedsDespiteNotifications ==
    (/\ fan.pc = "done"
     /\ fan.op = "update_order_status"
     /\ fan.event.type = "order_update")
        => /\ fan.code = 200
           /\ orders[fan.event.order_id].status = fan.event.status

(***************************************************************************)
(* Properties of the registry.                                             *)
(***************************************************************************)
\* How many times websocket w occurs in a list.
Times(list, w) == Cardinality({i \in DOMAIN list : list[i] = w})

\* Websocket w is registered for the user of a send_order_update call,
\* under the call's order or under "all".
Addressed(w, f) ==
    /\ sockets[w].state = "open"
    /\ sockets[w].user = f.recips[1].user
    /\ sockets[w].scope \in {f.event.order_id, AllScope}

\* C14: a send of send_order_update(U, O, E) goes to a websocket registered
\* under (U, O) or (U, "all") that the call has not sent to before, and the
\* websocket receives E; and at the moment a call ends, every send having
\* returned and no websocket having registered or unregistered meanwhile, it
\* has sent once to each websocket registered under (U, O) or (U, "all") and
\* to no websocket registered only under another order of U or another user.
C14_NotifyUserDelivers ==
    /\ [][(/\ fan.op = "send_order_update" /\ fan.pc = "sending"
           /\ fan'.sent # fan.sent) =>
            /\ fan'.sent = Append(fan.sent, fan.target)
            /\ Times(fan.sent, fan.target) = 0
            /\ Addressed(fan.target, fan)
            /\ sockets'[fan.target].received =
                   Append(sockets[fan.target].received, fan.event)]_vars
    /\ [][(/\ fan.pc # "done" /\ fan'.pc = "done"
           /\ fan'.op = "send_order_update"
           /\ fan'.error = "none" /\ ~fan'.disturbed)
             => \A w \in Listeners :
                    (Times(fan.sent, w) = IF Addressed(w, fan) THEN 1 ELSE 0)']_vars

\* C14's case: send_order_update(c1, 1, E) has sent E to c1's websocket for
\* order 1 and to c1's "all" websocket, and not to c1's websocket for order 2.
C14_Witness ==
    /\ fan.pc = "done" /\ fan.op = "send_order_update"
    /\ fan.error = "none" /\ ~fan.disturbed
    /\ fan.recips[1].user = "c1" /\ fan.event.order_id = 1
    /\ \A w \in Listeners : sockets[w].state = "open" /\ sockets[w].user = "c1"
    /\ sockets[1].scope = 1
    /\ sockets[2].scope = AllScope
    /\ sockets[3].scope = 2
    /\ fan.sent = <<1, 2>>

\* The registry holds exactly the open websockets, each once, under its
\* user and scope.
RegistryMatchesSockets ==
    /\ \A w \in Listeners :
          sockets[w].state = "open" =>
              /\ sockets[w].user \in DOMAIN active_connections
              /\ sockets[w].scope \in DOMAIN active_connections[sockets[w].user]
              /\ Times(active_connections[sockets[w].user][sockets[w].scope], w) = 1
    /\ \A u \in DOMAIN active_connections :
          \A sc \in DOMAIN active_connections[u] :
              \A i \in DOMAIN active_connections[u][sc] :
                  LET w == active_connections[u][sc][i]
                  IN  /\ sockets[w].state = "open"
                      /\ sockets[w].user = u
                      /\ sockets[w].scope = sc

\* C15: the registry has no user entry without scopes and no scope entry
\* without websockets, and holds exactly the websockets registered and not
\* yet unregistered; so unregistering the last websocket of a scope removes
\* the scope entry, unregistering a user's last scope removes the user
\* entry, and with every websocket unregistered the registry is empty.
C15_NoEmptyEntries ==
    /\ \A u \in DOMAIN active_connections :
          /\ DOMAIN active_connections[u] # {}
          /\ \A sc \in DOMAIN active_connections[u] :
                active_connections[u][sc] # << >>
    /\ RegistryMatchesSockets
    /\ (\A w \in Listeners : sockets[w].state # "open")
           => active_connections = << >>

\* C15's case: the websockets were registered and have all been unregistered.
C15_Witness ==
    /\ \A w \in Listeners : sockets[w].state = "closed"
    /\ active_connections = << >>

\* C18: a send_order_update call all of whose sends are to registered
\* websockets and return ends without an exception, whatever registered or
\* unregistered while it ran, and has sent exactly once to every websocket
\* that was registered for it when it began and still is when it ends.
C18_FanOutSerialized ==
    [][(/\ fan.pc # "done" /\ fan'.pc = "done"
        /\ fan'.op = "send_order_update"
        /\ fan'.error # "send" /\ ~fan'.stale)
          => (/\ fan.error = "none"
              /\ \A w \in fan.audience :
                    sockets[w].state = "open" => Times(fan.sent, w) = 1)']_vars

(***************************************************************************)
(* Properties of the menu.                                                 *)
(***************************************************************************)
\* C19: every menu item in the table is owned by a user whose role is
\* restaurant, whichever user the role check of create_menu_item admitted.
C19_MenuItemOwnedByRestaurant ==
    \A i \in DOMAIN menu_items :
        menu_items[i].present => role_of[menu_items[i].restaurant_id] = RESTAURANT

\* C20: every line item of every stored order names a menu item that is in
\* the table and belongs to the order's restaurant.
C20_LineItemsReferenceMenu ==
    \A o \in DOMAIN orders :
        \A k \in DOMAIN orders[o].items :
            /\ ItemExists(menu_items, orders[o].items[k].item_id)
            /\ menu_items[orders[o].items[k].item_id].restaurant_id
                   = orders[o].restaurant_id

(***************************************************************************)
(* Properties of the timestamps.                                           *)
(***************************************************************************)
\* C21: whatever the offset between the server's local clock and the UTC
\* clock, a status update that is persisted leaves the order with an
\* updated_at later than the one it had and not earlier than its created_at.
C21_UpdatedAtAdvances ==
    [][\A o \in DOMAIN orders :
          orders'[o] # orders[o]
             => \A offset \in UtcOffsets :
                   /\ WallTime(orders'[o].updated_at, offset)
                         > WallTime(orders[o].updated_at, offset)
                   /\ WallTime(orders'[o].updated_at, offset)
                         >= WallTime(orders'[o].created_at, offset)]_vars

(***************************************************************************)
(* Properties of manager.disconnect.                                       *)
(***************************************************************************)
\* The websockets a registry holds for a user under a scope.
ScopeList(registry, user_id, scope) ==
    IF user_id \in DOMAIN registry /\ scope \in DOMAIN registry[user_id]
    THEN registry[user_id][scope] ELSE << >>

\* C22: a call disconnect(websocket, U, O) does not raise, takes the
\* websocket out of U's list for O when it is there, and leaves every other
\* list of U and every list of every other user as it was; so with no list
\* for O, or the websocket not in it, the registry stays as it was.
C22_DisconnectFrame ==
    [][last_disconnect' # last_disconnect
         => LET c == last_disconnect'
            IN  /\ ~c.raised
                /\ \A u \in RegistryUsers, sc \in RegistryScopes :
                      ScopeList(active_connections', u, sc)
                         = IF /\ u = c.user_id /\ sc = c.order_id
                              /\ \E i \in DOMAIN ScopeList(active_connections, u, sc) :
                                    ScopeList(active_connections, u, sc)[i] = c.websocket
                           THEN Remove(ScopeList(active_connections, u, sc), c.websocket)
                           ELSE ScopeList(active_connections, u, sc)]_vars

(***************************************************************************)
(* Properties of rejected and accepted status updates.                     *)
(***************************************************************************)
\* C23: a status update answered 404 (order not found), 403 (actor not
\* authorized) or 400 (transition invalid) leaves the orders as they were
\* and sends nothing: the request ends in that step, no websocket is sent
\* to and no websocket's received events change.
C23_RejectedUpdateSilent ==
    [][(/\ fan.pc = "idle"
        /\ fan'.op = "update_order_status"
        /\ fan'.code \in {400, 403, 404})
          => /\ orders' = orders
             /\ sockets' = sockets
             /\ fan'.pc = "done"
             /\ fan'.event = NoEvent /\ fan'.sent = << >> /\ fan'.target = 0]_vars

\* C23's case: an update of c1's order was rejected as an invalid transition
\* while c1 was listening.
C23_Witness ==
    /\ fan.pc = "done" /\ fan.op = "update_order_status" /\ fan.code = 400
    /\ \E w \in Sockets :
          /\ sockets[w].state = "open"
          /\ sockets[w].user = "c1"
          /\ sockets[w].scope = AllScope
    /\ \E o \in DOMAIN orders : orders[o].customer_id = "c1"

\* C24: an order that is picked up or delivered has a delivery agent.
C24_CarriedOrderHasAgent ==
    \A o \in DOMAIN orders :
        orders[o].status \in {PICKED_UP, DELIVERED}
            => orders[o].delivery_agent_id # None

\* C25: a persisted status update leaves the delivery agent of an order
\* that has one as it is.
C25_AgentNeverReplaced ==
    [][\A o \in DOMAIN orders :
          orders[o].delivery_agent_id # None
             => orders'[o].delivery_agent_id = orders[o].delivery_agent_id]_vars

(***************************************************************************)
(* Properties of the websocket endpoints.                                  *)
(***************************************************************************)
\* C26: every websocket in the registry under a user was opened with that
\* user's token; one opened with no token, a forged token or another
\* user's token is in no list of the registry.
C26_RegisteredWithCredential ==
    \A u \in DOMAIN active_connections :
        \A sc \in DOMAIN active_connections[u] :
            \A i \in DOMAIN active_connections[u][sc] :
                sockets[active_connections[u][sc][i]].token = u

=============================================================================
